---- MODULE Spec2Model ----
(***************************************************************************)
(* yamlwrap: paragraph wrapping and unwrapping of Markdown-like text.      *)
(*                                                                         *)
(* A text is a sequence of characters.  The regular expressions            *)
(* _WRAP_BREAK, _PARAGRAPH and _MARKDOWN_SOFTBREAK are modelled by the     *)
(* matching the re module performs (alternatives in order, greedy          *)
(* repetition, lookaround by character inspection), re.sub as a scan from  *)
(* left to right over non-overlapping matches, and TextWrapper.fill by the *)
(* chunk splitting and greedy line filling of the textwrap module with     *)
(* break_long_words=False and break_on_hyphens=False.                      *)
(***************************************************************************)
EXTENDS Integers, Sequences, FiniteSets, TLC

----------------------------------------------------------------------------
(* Bounds of the model.                                                    *)

\* Longest text drawn as an input.
MaxLen == 4

\* Largest wrapping width drawn as an input, besides the default width.
MaxWidth == 3

----------------------------------------------------------------------------
(* Characters.                                                             *)

NL == "\n"
SP == " "

\* One representative per character class the regular expressions tell
\* apart.  Texts are drawn over two alphabets: a word character and
\* whitespace with the markers of HTML, block quotes and bullets, or with
\* the digit and full stop of a numbered list item.
MarkupAlphabet == {"a", SP, NL, ">", "<", "*"}
ListAlphabet == {"a", SP, NL, "1", "."}
Alphabets == {MarkupAlphabet, ListAlphabet}

\* \s of the re module, and str.strip() / the whitespace of textwrap.
Whitespace == {SP, NL}

\* \d of the re module.
Digits == {"0", "1", "2", "3", "4", "5", "6", "7", "8", "9"}

\* The width of the default TextWrapper.
DefaultWidth == 70

----------------------------------------------------------------------------
(* Helpers on sequences.                                                   *)

\* s[i] where i may lie outside the text: "" stands for "no character".
At(s, i) == IF i >= 1 /\ i <= Len(s) THEN s[i] ELSE ""

RECURSIVE Concat(_)
\* ''.join(seqs)
Concat(seqs) ==
    IF seqs = <<>> THEN <<>> ELSE Head(seqs) \o Concat(Tail(seqs))

RECURSIVE JoinLines(_)
\* '\n'.join(lines)
JoinLines(lines) ==
    IF lines = <<>> THEN <<>>
    ELSE IF Len(lines) = 1 THEN lines[1]
    ELSE lines[1] \o <<NL>> \o JoinLines(Tail(lines))

RECURSIVE SkipSpace(_, _)
\* The position after the longest run of whitespace starting at i: \s*
SkipSpace(s, i) ==
    IF At(s, i) \in Whitespace THEN SkipSpace(s, i + 1) ELSE i

----------------------------------------------------------------------------
(* _WRAP_BREAK and unwrap.                                                 *)

\* ListOrQuoteAhead without the "\*" option.
ListOrQuoteAheadNoStar(s, i) ==
    \/ At(s, i) \in Digits /\ At(s, i + 1) = "." /\ At(s, i + 2) \in Whitespace
    \/ At(s, i) = ">" /\ At(s, i + 1) \in Whitespace

\* The lookahead (?!(?:\*|\d\.|>)\s) at position i: TRUE when the text at i
\* starts a list item or a block-quote line.
ListOrQuoteAhead(s, i) ==
    \/ At(s, i) = "*" /\ At(s, i + 1) \in Whitespace
    \/ At(s, i) \in Digits /\ At(s, i + 1) = "." /\ At(s, i + 2) \in Whitespace
    \/ At(s, i) = ">" /\ At(s, i + 1) \in Whitespace

\* Group 2 of _WRAP_BREAK at p: the optional ">" is greedy, and once it has
\* matched no shorter alternative can match the line break at the same place.
WrapBreakGroup2(s, p) == At(s, p) = ">"

\* The position of the focal line break of a match starting at p.
WrapBreakFocus(s, p) == IF WrapBreakGroup2(s, p) THEN p + 1 ELSE p

\* WrapBreakMatches with the lookbehind (?<=[^>\n]), which admits a space.
WrapBreakMatchesAfterSpace(s, p) ==
    LET q == WrapBreakFocus(s, p) IN
    /\ p > 1 /\ At(s, p - 1) \notin {">", NL}
    /\ At(s, q) = NL
    /\ WrapBreakGroup2(s, p) => At(s, SkipSpace(s, q + 1)) # "<"
    /\ ~ ListOrQuoteAhead(s, q + 1)
    /\ At(s, q + 1) # "" /\ At(s, q + 1) \notin Whitespace

\* WrapBreakMatches without the conditional (?(2)(?!\s*<)).
WrapBreakMatchesNoHtml(s, p) ==
    LET q == WrapBreakFocus(s, p) IN
    /\ p > 1 /\ At(s, p - 1) \notin {">", NL, SP}
    /\ At(s, q) = NL
    /\ ~ ListOrQuoteAhead(s, q + 1)
    /\ At(s, q + 1) # "" /\ At(s, q + 1) \notin Whitespace

\* WrapBreakMatches without the lookahead (?=\S).
WrapBreakMatchesNoContent(s, p) ==
    LET q == WrapBreakFocus(s, p) IN
    /\ p > 1 /\ At(s, p - 1) \notin {">", NL, SP}
    /\ At(s, q) = NL
    /\ WrapBreakGroup2(s, p) => At(s, SkipSpace(s, q + 1)) # "<"
    /\ ~ ListOrQuoteAhead(s, q + 1)

\* WrapBreakMatches with the lookbehind (?<=[^\n ]), which admits a ">".
WrapBreakMatchesAfterAngle(s, p) ==
    LET q == WrapBreakFocus(s, p) IN
    /\ p > 1 /\ At(s, p - 1) \notin {NL, SP}
    /\ At(s, q) = NL
    /\ WrapBreakGroup2(s, p) => At(s, SkipSpace(s, q + 1)) # "<"
    /\ ~ ListOrQuoteAhead(s, q + 1)
    /\ At(s, q + 1) # "" /\ At(s, q + 1) \notin Whitespace

\* _WRAP_BREAK matches at p.
WrapBreakMatches(s, p) ==
    LET q == WrapBreakFocus(s, p) IN
    /\ p > 1 /\ At(s, p - 1) \notin {">", NL, SP}          \* (?<=[^>\n ])
    /\ At(s, q) = NL                                        \* the focal break
    /\ WrapBreakGroup2(s, p) => At(s, SkipSpace(s, q + 1)) # "<"  \* (?(2)(?!\s*<))
    /\ ~ ListOrQuoteAhead(s, q + 1)
    /\ At(s, q + 1) # "" /\ At(s, q + 1) \notin Whitespace  \* (?=\S)

RECURSIVE UnwrapFromNoSpace(_, _)
\* UnwrapFrom with the replacement r'\1', which leaves out the space.
UnwrapFromNoSpace(s, p) ==
    IF p > Len(s) THEN <<>>
    ELSE IF WrapBreakMatches(s, p)
         THEN IF WrapBreakGroup2(s, p)
              THEN <<">">> \o UnwrapFromNoSpace(s, p + 2)
              ELSE UnwrapFromNoSpace(s, p + 1)
         ELSE <<s[p]>> \o UnwrapFromNoSpace(s, p + 1)

RECURSIVE UnwrapFromTwoSpaces(_, _)
\* UnwrapFrom with the replacement r'\1  ', which puts two spaces.
UnwrapFromTwoSpaces(s, p) ==
    IF p > Len(s) THEN <<>>
    ELSE IF WrapBreakMatches(s, p)
         THEN IF WrapBreakGroup2(s, p)
              THEN <<">", SP, SP>> \o UnwrapFromTwoSpaces(s, p + 2)
              ELSE <<SP, SP>> \o UnwrapFromTwoSpaces(s, p + 1)
         ELSE <<s[p]>> \o UnwrapFromTwoSpaces(s, p + 1)

RECURSIVE UnwrapFrom(_, _)
\* _WRAP_BREAK.sub(r'\1 ', string), scanning from position p.
UnwrapFrom(s, p) ==
    IF p > Len(s) THEN <<>>
    ELSE IF WrapBreakMatches(s, p)
         THEN IF WrapBreakGroup2(s, p)
              THEN <<">", SP>> \o UnwrapFrom(s, p + 2)
              ELSE <<SP>> \o UnwrapFrom(s, p + 1)
         ELSE <<s[p]>> \o UnwrapFrom(s, p + 1)

unwrap(s) == UnwrapFrom(s, 1)

----------------------------------------------------------------------------
(* TextWrapper.fill                                                        *)

IsBlank(chunk) == \A i \in 1..Len(chunk) : chunk[i] \in Whitespace

RECURSIVE RunEnd(_, _, _)
\* The position after the longest run starting at i of characters that are
\* whitespace (ws = TRUE) or not (ws = FALSE).
RunEnd(s, i, ws) ==
    IF i <= Len(s) /\ ((s[i] \in Whitespace) = ws)
    THEN RunEnd(s, i + 1, ws) ELSE i

RECURSIVE SplitFrom(_, _)
\* TextWrapper._split with break_on_hyphens=False, after _munge_whitespace:
\* runs of whitespace (each character translated to a space) and words.
SplitFrom(s, i) ==
    IF i > Len(s) THEN <<>>
    ELSE LET ws == s[i] \in Whitespace
             j  == RunEnd(s, i, ws)
             chunk == IF ws THEN [k \in 1..(j - i) |-> SP]
                      ELSE SubSeq(s, i, j - 1)
         IN <<chunk>> \o SplitFrom(s, j)

RECURSIVE TakeFit(_, _, _)
\* How many leading chunks fit on a line with `room` columns left.
TakeFit(chunks, k, room) ==
    IF k < Len(chunks) /\ Len(chunks[k + 1]) <= room
    THEN TakeFit(chunks, k + 1, room - Len(chunks[k + 1]))
    ELSE k

RECURSIVE WrapChunksKeepBlank(_, _, _)
\* WrapChunks that keeps a whitespace chunk ending a line.
WrapChunksKeepBlank(chunks, lines, width) ==
    IF chunks = <<>> THEN lines
    ELSE
      LET c1 == IF IsBlank(Head(chunks)) /\ lines # <<>>
                THEN Tail(chunks) ELSE chunks
          k  == TakeFit(c1, 0, width)
          long == k < Len(c1) /\ Len(c1[k + 1]) > width /\ k = 0
          n  == IF long THEN 1 ELSE k
          cur == SubSeq(c1, 1, n)
          rest == SubSeq(c1, n + 1, Len(c1))
          out == IF cur # <<>> THEN Append(lines, Concat(cur)) ELSE lines
      IN WrapChunksKeepBlank(rest, out, width)

RECURSIVE WrapChunksBreakLong(_, _, _)
\* WrapChunks with break_long_words=True: a word longer than the width is
\* cut at the width.
WrapChunksBreakLong(chunks, lines, width) ==
    IF chunks = <<>> THEN lines
    ELSE
      LET c1 == IF IsBlank(Head(chunks)) /\ lines # <<>>
                THEN Tail(chunks) ELSE chunks
          k  == TakeFit(c1, 0, width)
          long == k < Len(c1) /\ Len(c1[k + 1]) > width /\ k = 0
          cur == IF long THEN <<SubSeq(c1[1], 1, width)>> ELSE SubSeq(c1, 1, k)
          rest == IF long
                  THEN <<SubSeq(c1[1], width + 1, Len(c1[1]))>> \o Tail(c1)
                  ELSE SubSeq(c1, k + 1, Len(c1))
          kept == IF cur # <<>> /\ IsBlank(cur[Len(cur)])
                  THEN SubSeq(cur, 1, Len(cur) - 1) ELSE cur
          out == IF kept # <<>> THEN Append(lines, Concat(kept)) ELSE lines
      IN WrapChunksBreakLong(rest, out, width)

RECURSIVE WrapChunksIndented(_, _, _)
\* WrapChunks with subsequent_indent set to two spaces.
WrapChunksIndented(chunks, lines, width) ==
    IF chunks = <<>> THEN lines
    ELSE
      LET c1 == IF IsBlank(Head(chunks)) /\ lines # <<>>
                THEN Tail(chunks) ELSE chunks
          k  == TakeFit(c1, 0, width)
          long == k < Len(c1) /\ Len(c1[k + 1]) > width /\ k = 0
          n  == IF long THEN 1 ELSE k
          cur == SubSeq(c1, 1, n)
          rest == SubSeq(c1, n + 1, Len(c1))
          kept == IF cur # <<>> /\ IsBlank(cur[Len(cur)])
                  THEN SubSeq(cur, 1, Len(cur) - 1) ELSE cur
          indent == IF lines # <<>> THEN <<SP, SP>> ELSE <<>>
          out == IF kept # <<>> THEN Append(lines, indent \o Concat(kept))
                 ELSE lines
      IN WrapChunksIndented(rest, out, width)

RECURSIVE WrapChunks(_, _, _)
\* TextWrapper._wrap_chunks: one iteration of the outer loop per call.
WrapChunks(chunks, lines, width) ==
    IF chunks = <<>> THEN lines
    ELSE
      LET \* a whitespace chunk that would start a line other than the first
          c1 == IF IsBlank(Head(chunks)) /\ lines # <<>>
                THEN Tail(chunks) ELSE chunks
          k  == TakeFit(c1, 0, width)
          \* _handle_long_word with break_long_words=False
          long == k < Len(c1) /\ Len(c1[k + 1]) > width /\ k = 0
          n  == IF long THEN 1 ELSE k
          cur == SubSeq(c1, 1, n)
          rest == SubSeq(c1, n + 1, Len(c1))
          \* drop_whitespace: a whitespace chunk ending the line
          kept == IF cur # <<>> /\ IsBlank(cur[Len(cur)])
                  THEN SubSeq(cur, 1, Len(cur) - 1) ELSE cur
          out == IF kept # <<>> THEN Append(lines, Concat(kept)) ELSE lines
      IN WrapChunks(rest, out, width)

\* wrapper.fill(body)
fill(body, width) == JoinLines(WrapChunks(SplitFrom(body, 1), <<>>, width))

----------------------------------------------------------------------------
(* _PARAGRAPH and wrap.                                                    *)

\* No match of _PARAGRAPH.
NoMatch == [lead |-> 0, body |-> 0, html |-> FALSE]

\* The lookahead that guards each character of the paragraph contents.
\* With group 2 (HTML): (?!>(?:\n|$)).  Otherwise: (?!\n\n|\n?$).
\* "$" matches at the end of the text and before a line break that ends it.
AtEnd(s, i) == i > Len(s) \/ (i = Len(s) /\ s[i] = NL)

\* ContentsStop with the two branches of the conditional exchanged.
ContentsStopSwapped(s, i, html) ==
    IF ~ html
    THEN At(s, i) = ">" /\ (At(s, i + 1) = NL \/ AtEnd(s, i + 1))
    ELSE \/ At(s, i) = NL /\ At(s, i + 1) = NL
         \/ At(s, i) = NL /\ AtEnd(s, i + 1)
         \/ AtEnd(s, i)

ContentsStop(s, i, html) ==
    IF html
    THEN At(s, i) = ">" /\ (At(s, i + 1) = NL \/ AtEnd(s, i + 1))
    ELSE \/ At(s, i) = NL /\ At(s, i + 1) = NL
         \/ At(s, i) = NL /\ AtEnd(s, i + 1)
         \/ AtEnd(s, i)

RECURSIVE ContentsEndDotAll(_, _, _)
\* ContentsEnd with a "." that matches a line break too (re.DOTALL).
ContentsEndDotAll(s, i, html) ==
    IF i <= Len(s) /\ ~ ContentsStop(s, i, html)
    THEN ContentsEndDotAll(s, i + 1, html) ELSE i

RECURSIVE ContentsEnd(_, _, _)
\* The position after the contents (group 3) starting at i: the guarded "."
\* repeated greedily; "." matches any character but a line break.
ContentsEnd(s, i, html) ==
    IF i <= Len(s) /\ ~ ContentsStop(s, i, html) /\ s[i] # NL
    THEN ContentsEnd(s, i + 1, html) ELSE i

\* A lead-in of n characters at p, followed by contents of at least one
\* character; NoMatch when the contents are empty.
WithContents(s, p, n, html) ==
    LET e == ContentsEnd(s, p + n, html) IN
    IF e > p + n THEN [lead |-> n, body |-> e - (p + n), html |-> html]
    ELSE NoMatch

\* Option 1 from position q, the text's start or a line break having been
\* matched before q: (\s*<) and HTML contents.
HtmlLead(s, p, q) ==
    LET lt == SkipSpace(s, q) IN
    IF At(s, lt) = "<" THEN WithContents(s, p, lt + 1 - p, TRUE) ELSE NoMatch

\* Option 1: (?:^|\n)(\s*<)
Option1(s, p) ==
    LET viaStart == IF p = 1 THEN HtmlLead(s, p, p) ELSE NoMatch
        viaBreak == IF At(s, p) = NL THEN HtmlLead(s, p, p + 1) ELSE NoMatch
    IN IF viaStart # NoMatch THEN viaStart ELSE viaBreak

\* Option 2 without its optional line break: ^
Option2NoBreak(s, p) ==
    IF p # 1 THEN NoMatch ELSE WithContents(s, 1, 0, FALSE)

\* Option 2: ^\n?  The optional break is greedy and given up when no
\* contents follow it.
Option2(s, p) ==
    IF p # 1 THEN NoMatch
    ELSE LET withBreak == IF At(s, 1) = NL THEN WithContents(s, 1, 1, FALSE)
                          ELSE NoMatch
         IN IF withBreak # NoMatch THEN withBreak
            ELSE WithContents(s, 1, 0, FALSE)

\* Option 3 with the pattern \n, which a single line break matches.
Option3SingleBreak(s, p) ==
    IF At(s, p) = NL THEN WithContents(s, p, 1, FALSE) ELSE NoMatch

\* Option 3: \n\n
Option3(s, p) ==
    IF At(s, p) = NL /\ At(s, p + 1) = NL
    THEN WithContents(s, p, 2, FALSE) ELSE NoMatch

\* Option 4: \n(?=> .)  The pattern is compiled with re.VERBOSE, which
\* drops the space: a line break followed by ">" and any character but a
\* line break.
Option4(s, p) ==
    IF /\ At(s, p) = NL /\ At(s, p + 1) = ">"
       /\ At(s, p + 2) # "" /\ At(s, p + 2) # NL
    THEN WithContents(s, p, 1, FALSE) ELSE NoMatch

\* The line after option 4 begins with "|" and holds no "#": under
\* re.VERBOSE its words are part of the pattern.  AnyNonSpace stands for \S
\* and AnyChar for ".".
AnyNonSpace == "\\S"
AnyChar == "."
\* U+201C and U+201D, the quotation marks around the two wildcards.
LeftQuote == "U+201C"
RightQuote == "U+201D"
StrayWords ==
    <<"F", "o", "r", "s", "o", "m", "e", "r", "e", "a", "s", "o", "n", ",",
      LeftQuote, AnyNonSpace, RightQuote, "d", "o", "e", "s", "n", "o", "t", "w", "o", "r",
      "k", "i", "n", "p", "l", "a", "c", "e", "o", "f", LeftQuote, AnyChar, RightQuote,
      AnyChar>>

StrayWordsMatch(s, p) ==
    \A i \in 1..Len(StrayWords) :
        LET c == At(s, p + i - 1) IN
        /\ c # ""
        /\ IF StrayWords[i] = AnyNonSpace THEN c \notin Whitespace
           ELSE IF StrayWords[i] = AnyChar THEN c # NL
           ELSE c = StrayWords[i]

\* Option 5: the stray words, then \n(?=>\n)
Option5(s, p) ==
    LET q == p + Len(StrayWords) IN
    IF /\ StrayWordsMatch(s, p)
       /\ At(s, q) = NL /\ At(s, q + 1) = ">" /\ At(s, q + 2) = NL
    THEN WithContents(s, p, Len(StrayWords) + 1, FALSE) ELSE NoMatch

\* _PARAGRAPH at position p: the first option, in order, that matches.
ParagraphMatch(s, p) ==
    LET m1 == Option1(s, p)
        m2 == Option2(s, p)
        m3 == Option3(s, p)
        m4 == Option4(s, p)
    IN IF m1 # NoMatch THEN m1
       ELSE IF m2 # NoMatch THEN m2
       ELSE IF m3 # NoMatch THEN m3
       ELSE IF m4 # NoMatch THEN m4
       ELSE Option5(s, p)

\* SoftBreak with the pattern ((  ?)?)$, which finds one space too.
SoftBreakOneSpace(body) ==
    LET n == Len(body) IN
    IF n >= 2 /\ body[n] = SP /\ body[n - 1] = SP THEN <<SP, SP>>
    ELSE IF n >= 1 /\ body[n] = SP THEN <<SP>> ELSE <<>>

\* SoftBreak that never finds the two spaces.
SoftBreakLost(body) == <<>>

\* _MARKDOWN_SOFTBREAK.search(body).group(1): the two spaces ending body.
SoftBreak(body) ==
    LET n == Len(body) IN
    IF n >= 2 /\ body[n] = SP /\ body[n - 1] = SP THEN <<SP, SP>> ELSE <<>>

\* replace(match) of wrap: lead, filled body, soft break.
Replace(s, p, m, width) ==
    LET lead == SubSeq(s, p, p + m.lead - 1)
        body == SubSeq(s, p + m.lead, p + m.lead + m.body - 1)
    IN lead \o fill(body, width) \o SoftBreak(body)

RECURSIVE WrapFrom(_, _, _)
\* _PARAGRAPH.sub(replace, string), scanning from position p.
WrapFrom(s, p, width) ==
    IF p > Len(s) THEN <<>>
    ELSE LET m == ParagraphMatch(s, p) IN
         IF m # NoMatch
         THEN Replace(s, p, m, width) \o WrapFrom(s, p + m.lead + m.body, width)
         ELSE <<s[p]>> \o WrapFrom(s, p + 1, width)

wrap(s, width) == WrapFrom(s, 1, width)

RECURSIVE SpansFrom(_, _)
\* The matches of _PARAGRAPH that the scan of WrapFrom finds from position
\* p on: for each its start, the lengths of its lead-in and its contents,
\* and whether group 2 (HTML) took part.
SpansFrom(s, p) ==
    IF p > Len(s) THEN <<>>
    ELSE LET m == ParagraphMatch(s, p) IN
         IF m # NoMatch
         THEN <<[start |-> p, lead |-> m.lead, body |-> m.body,
                 html |-> m.html]>> \o SpansFrom(s, p + m.lead + m.body)
         ELSE SpansFrom(s, p + 1)

\* OnePass with the two calls in the wrong order.
OnePassSwapped(s, width) == unwrap(wrap(s, width))

\* _rewrap: one full pass of unwrapping and wrapping.
OnePass(s, width) == wrap(unwrap(s), width)

\* rewrap that returns after its first pass.
RewrapSinglePass(s, width) == OnePass(s, width)

\* rewrap that runs a third pass after a second pass that changed the text.
RewrapThirdPass(s, width) ==
    LET new_string == OnePass(s, width) IN
    IF s = new_string THEN s
    ELSE OnePass(OnePass(new_string, width), width)

\* rewrap: a second pass unless the first changed nothing.
rewrap(s, width) ==
    LET new_string == OnePass(s, width) IN
    IF s = new_string THEN s ELSE OnePass(new_string, width)

----------------------------------------------------------------------------
(* The state machine: a caller holding a text applies the interface        *)
(* functions to it, a first call and then a second call on its result,     *)
(* with one wrapper width, as the unit tests' _rewrap helper does.         *)

VARIABLES
    string,   \* the text the caller holds
    width,    \* the width of the TextWrapper passed to wrap and rewrap
    first,    \* the first call made: [fn, arg, ret], or NoCall
    second,   \* the second call made, on the result of the first
    log,      \* the levels of the records logged, in order
    raised,   \* the exception that left the last call, "none" if it returned
    wrapperWidth,  \* _WRAPPER.width, the width of yamldoc's shared wrapper
    threads,  \* the calls of wrap_paragraphs in progress, one per thread
    data,     \* the deserialized YAML data that transform walks
    cooked,   \* what transform made of the data, or NoResult
    files,    \* the contents of the files named on the command line
    args,     \* the parsed command line
    process   \* what the command has printed, and whether it has exited

callVars == <<string, width, first, second>>
errorVars == <<log, raised>>
threadVars == <<wrapperWidth, threads>>
treeVars == <<data, cooked>>
cliVars == <<files, args, process>>

vars == <<string, width, first, second, log, raised, wrapperWidth, threads,
          data, cooked, files, args, process>>

NoCall == [fn |-> "none", arg |-> <<>>, ret |-> <<>>]

\* All texts of at most n characters over one of the alphabets.
Texts(n) == UNION {[1..k -> A] : k \in 0..n, A \in Alphabets}

\* The texts of the specification's scenarios and of the unit tests, with
\* the width each is used with.
SoftBreakText == <<"a", "a", SP, SP, NL, "a", "a">>
HtmlText == <<"<", "a", ">", NL, "<", "/", "a", ">">>
BulletText ==
    <<"a", SP, "a", NL, NL, "*", SP, "b", SP, "b", NL, "b", NL, "*", SP, "b",
      NL, NL, "c", SP, "c", NL>>
BulletMerged ==
    <<"a", SP, "a", NL, NL, "*", SP, "b", SP, "b", SP, "b", NL, "*", SP, "b",
      NL, NL, "c", SP, "c", NL>>
\* An HTML line with spaces around its ">".
SpacedHtmlText == <<"<", SP, ">", SP, "a">>
\* A bullet marker on a line of its own, between two lines of words.
BareMarkerText == <<"a", NL, "*", NL, "a">>
\* A numbered list item with a number of two digits after a line of words.
TwoDigitText == <<"a", NL, "2", "9", ".", SP, "b">>
\* A continuation line that begins with a space.
LeadingSpaceText == <<"a", "a", NL, SP, "a", "a">>
\* A numbered list whose continuation line is indented under the marker.
\* Paragraphs of words, the last a word with hyphens, and the same text
\* wrapped at width 6.
HyphenText ==
    <<"a", SP, "a", NL, NL, "b", SP, "b", SP, "b", SP, "b", NL, NL,
      "c", "-", "c", "-", "c", "-", "c">>
HyphenWrapped ==
    <<"a", SP, "a", NL, NL, "b", SP, "b", SP, "b", NL, "b", NL, NL,
      "c", "-", "c", "-", "c", "-", "c">>
\* A list item too long for width 3 on the line after a line of words.
ListAfterLineText ==
    <<"a", SP, "a", SP, "a", NL, "*", SP, "a", SP, "a", SP, "a">>
\* A list of one item too long for width 3, and the same text wrapped.
BulletSingleText ==
    <<"a", SP, "a", NL, NL, "*", SP, "b", SP, "b", NL, NL, "c", SP, "c">>
BulletSingleWrapped ==
    <<"a", SP, "a", NL, NL, "*", SP, "b", NL, "b", NL, NL, "c", SP, "c">>
\* A line that is an inline HTML element, between two lines of words, and
\* the same text unwrapped.
InlineHtmlText ==
    <<"a", SP, "a", SP, "a", SP, "a", SP, "a", NL, "<", "b", ">", "a", SP,
      "a", "<", "/", "b", ">", NL, "a", SP, "a", SP, "a", SP, "a", SP, "a">>
InlineHtmlUnwrapped ==
    <<"a", SP, "a", SP, "a", SP, "a", SP, "a", SP, "<", "b", ">", "a", SP,
      "a", "<", "/", "b", ">", SP, "a", SP, "a", SP, "a", SP, "a", SP, "a">>
\* A line of one word that a single space ends.
TrailingSpaceText == <<"a", "a", SP, NL, "a", "a">>
IndentedListText ==
    <<"2", ".", SP, "b", SP, "b", NL, SP, SP, SP, "b", NL, "3", ".", SP, "b">>

\* Two paragraphs between two blank lines at each end, and the same text
\* unwrapped.
EnclosingBlanksText ==
    <<NL, NL, "a", "a", NL, "b", "b", NL, NL, "c", "c", NL, NL>>
EnclosingBlanksUnwrapped ==
    <<NL, NL, "a", "a", SP, "b", "b", NL, NL, "c", "c", NL, NL>>

Scenarios ==
    { <<SoftBreakText, DefaultWidth>>,
      <<SoftBreakText, 5>>,
      <<HtmlText, 5>>,
      <<BulletText, 5>>,
      <<SpacedHtmlText, 3>>,
      <<BareMarkerText, 3>>,
      <<TwoDigitText, 5>>,
      <<LeadingSpaceText, DefaultWidth>>,
      <<TrailingSpaceText, DefaultWidth>>,
      <<HyphenText, 6>>,
      <<BulletSingleText, 3>>,
      <<InlineHtmlText, 10>>,
      <<ListAfterLineText, 3>>,
      <<IndentedListText, 6>>,
      <<IndentedListText, 60>>,
      <<EnclosingBlanksText, 3>> }

\* The values of the variables that a specification does not use.
NoResult == [made |-> FALSE]
NoErrors == log = <<>> /\ raised = "none"
NoThreads == wrapperWidth = DefaultWidth /\ threads = <<>>
NoTree == data = <<>> /\ cooked = NoResult
NotRun == [stdout |-> <<>>, exited |-> FALSE]
NoCli == files = <<>> /\ args = <<>> /\ process = NotRun

Init ==
    /\ \/ string \in Texts(MaxLen) /\ width \in 1..MaxWidth
       \/ \E sc \in Scenarios : string = sc[1] /\ width = sc[2]
    /\ first = NoCall
    /\ second = NoCall
    /\ NoErrors /\ NoThreads /\ NoTree /\ NoCli

\* A call of fn on the text held, returning ret.
Call(fn, ret) ==
    LET call == [fn |-> fn, arg |-> string, ret |-> ret] IN
    /\ second = NoCall
    /\ IF first = NoCall
       THEN first' = call /\ UNCHANGED second
       ELSE second' = call /\ UNCHANGED first
    /\ string' = ret
    /\ UNCHANGED <<width, errorVars, threadVars, treeVars, cliVars>>

Unwrap == Call("unwrap", unwrap(string))

Wrap == Call("wrap", wrap(string, width))

Rewrap == Call("rewrap", rewrap(string, width))

Next == Unwrap \/ Wrap \/ Rewrap

Spec == Init /\ [][Next]_vars

\* A caller that makes one call on the text it holds and none on the
\* result.
UnwrapOnce == first = NoCall /\ Unwrap

WrapOnce == first = NoCall /\ Wrap

RewrapOnce == first = NoCall /\ Rewrap

NextOnce == UnwrapOnce \/ WrapOnce \/ RewrapOnce

SpecOnce == Init /\ [][NextOnce]_vars

----------------------------------------------------------------------------
(* Properties.                                                             *)

\* A list marker ("*" or a digit and ".") at position i with whitespace
\* after it.
MarkerWord(s, i) ==
    \/ At(s, i) = "*" /\ At(s, i + 1) \in Whitespace
    \/ At(s, i) \in Digits /\ At(s, i + 1) = "." /\ At(s, i + 2) \in Whitespace

\* A text of plain words and list items: no "<" or ">", every space stands
\* between two characters that are not whitespace, and no list marker with
\* whitespace after it follows a space.
CleanText(s) ==
    \A i \in 1..Len(s) :
        /\ s[i] \notin {"<", ">"}
        /\ s[i] = SP =>
              /\ At(s, i - 1) \notin {"", SP, NL}
              /\ At(s, i + 1) \notin {"", SP, NL}
              /\ ~ MarkerWord(s, i + 1)

\* The first call was wrap, on a text that unwrap leaves unchanged.
WrappedUnwrapped == first.fn = "wrap" /\ unwrap(first.arg) = first.arg

C3_WrapIdempotent ==
    (first.fn = "wrap" /\ second.fn = "wrap") => second.ret = first.ret

\* C4: unwrap is idempotent: unwrap(unwrap(P)) = unwrap(P).
C4_UnwrapIdempotent ==
    (first.fn = "unwrap" /\ second.fn = "unwrap") => second.ret = first.ret

\* unwrap was called again on a text whose breaks the first call collapsed.
C4_Witness ==
    /\ first.fn = "unwrap" /\ first.ret # first.arg
    /\ second.fn = "unwrap"

\* C5: rewrap reaches a fixed point after its first application:
\* rewrap(rewrap(P, W), W) = rewrap(P, W).
C5_RewrapFixedPoint ==
    (first.fn = "rewrap" /\ second.fn = "rewrap") => second.ret = first.ret

\* The calls made so far.
Calls == {c \in {first, second} : c.fn # "none"}

\* The line breaks of s that two spaces precede, and those that exactly two
\* spaces precede (Markdown soft breaks).
SpacedBreaks(s) ==
    {i \in 1..Len(s) : s[i] = NL /\ At(s, i - 1) = SP /\ At(s, i - 2) = SP}
SoftBreaks(s) == {i \in SpacedBreaks(s) : At(s, i - 3) # SP}

\* C6: a Markdown soft break is protected: unwrap leaves every line break
\* that two spaces precede where it is, with its spaces; wrap and rewrap
\* return a text with as many line breaks after two spaces as their
\* argument has, and with no fewer soft breaks.
C6_SoftBreakProtected ==
    \A c \in Calls :
        /\ c.fn = "unwrap" =>
              /\ Len(c.ret) = Len(c.arg)
              /\ \A i \in SpacedBreaks(c.arg) :
                    c.ret[i] = NL /\ c.ret[i - 1] = SP /\ c.ret[i - 2] = SP
        /\ Cardinality(SpacedBreaks(c.ret)) = Cardinality(SpacedBreaks(c.arg))
        /\ Cardinality(SoftBreaks(c.ret)) >= Cardinality(SoftBreaks(c.arg))

\* wrap, then rewrap, were called on a text with a soft break after a word.
C6_Witness ==
    /\ first.fn = "wrap" /\ first.arg = SoftBreakText
    /\ second.fn = "rewrap"

\* C7 as stated: unwrap("aa  \naa") yields "aa   aa", and wrap("aa  \naa")
\* at the default width yields "aa\naa".
C7_SoftBreakScenario ==
    (first.arg = SoftBreakText /\ width = DefaultWidth) =>
        /\ first.fn = "unwrap" => first.ret = <<"a", "a", SP, SP, SP, "a", "a">>
        /\ first.fn = "wrap" => first.ret = <<"a", "a", NL, "a", "a">>

\* C7 amended: unwrap("aa  \naa") and wrap("aa  \naa") at the default width
\* both return "aa  \naa" unchanged.
C7_SoftBreakUnchanged ==
    (first.arg = SoftBreakText /\ width = DefaultWidth
        /\ first.fn \in {"unwrap", "wrap"}) => first.ret = SoftBreakText

\* wrap was called on "aa  \naa" at the default width.
C7_Witness ==
    first.arg = SoftBreakText /\ width = DefaultWidth /\ first.fn = "wrap"

\* The line breaks of s that follow ">" and are followed, after optional
\* whitespace, by "<".
HtmlBreaks(s) ==
    {i \in 1..Len(s) :
        s[i] = NL /\ At(s, i - 1) = ">" /\ At(s, SkipSpace(s, i + 1)) = "<"}

\* C8: unwrap never collapses a line break that follows ">" and is followed,
\* after optional whitespace, by "<"; wrap returns a text with no fewer such
\* breaks; unwrap("<a>\n</a>") and wrap("<a>\n</a>", 5) return their
\* argument.
C8_HtmlPassthrough ==
    /\ \A c \in Calls :
          /\ c.fn = "unwrap" =>
                /\ Len(c.ret) = Len(c.arg)
                /\ \A i \in HtmlBreaks(c.arg) : c.ret[i] = NL
          /\ c.fn = "wrap" =>
                Cardinality(HtmlBreaks(c.ret)) >= Cardinality(HtmlBreaks(c.arg))
    /\ (first.arg = HtmlText /\ first.fn \in {"unwrap", "wrap"})
          => first.ret = HtmlText

\* unwrap, then wrap, were called on "<a>\n</a>".
C8_Witness ==
    first.arg = HtmlText /\ first.fn = "unwrap" /\ second.fn = "wrap"

\* C9 as stated: wrap("a a\n\n* b b\nb\n* b\n\nc c\n", 5) yields
\* "a a\n\n* b b b\n* b\n\nc c\n".
C9_BulletScenario ==
    (first.fn = "wrap" /\ first.arg = BulletText /\ width = 5)
        => first.ret = BulletMerged

\* C9 amended: wrap("a a\n\n* b b\nb\n* b\n\nc c\n", 5) returns its argument
\* unchanged; unwrap of that text yields "a a\n\n* b b b\n* b\n\nc c\n", and
\* wrap of the unwrapped text at width 5 yields the argument again.
C9_BulletUnwrapped ==
    (first.arg = BulletText /\ width = 5) =>
        /\ first.fn = "wrap" => first.ret = BulletText
        /\ first.fn = "unwrap" =>
              /\ first.ret = BulletMerged
              /\ second.fn = "wrap" => second.ret = BulletText

\* unwrap merged the continuation line into the bullet and wrap was called
\* on the result.
C9_Witness ==
    /\ first.arg = BulletText /\ first.fn = "unwrap"
    /\ second.fn = "wrap" /\ second.arg = BulletMerged

RECURSIVE LineStart(_, _)
\* The position at which the line holding position i of s starts.
LineStart(s, i) == IF i > 1 /\ s[i - 1] # NL THEN LineStart(s, i - 1) ELSE i

\* The line holding position i of s starts with "* " or "> ".
MarkedLine(s, i) ==
    LET b == LineStart(s, i) IN At(s, b) \in {"*", ">"} /\ At(s, b + 1) = SP

\* The line after the break at i begins with "* " or "> ", or is a bare ">".
MarkerLineAfter(s, i) ==
    \/ At(s, i + 1) \in {"*", ">"} /\ At(s, i + 2) = SP
    \/ At(s, i + 1) = ">" /\ At(s, i + 2) \in {NL, ""}

\* The break at i ends a list or quote line that ends in a word, and a
\* plain word begins the next line.
PlainContinuation(s, i) ==
    /\ MarkedLine(s, i)
    /\ At(s, i - 1) \notin {SP, NL, ">", "<"}
    /\ At(s, i + 1) \notin {"", SP, NL, ">", "<", "*"} \union Digits

\* C10: unwrap never collapses a line break whose following line begins
\* with "* " or "> " or is a bare ">": each such break is a line break in
\* the result; a plain continuation line following a list or quote line is
\* merged into it with one space.
C10_MarkerLinesKept ==
    \A c \in Calls : c.fn = "unwrap" =>
        /\ Len(c.ret) = Len(c.arg)
        /\ \A i \in 1..Len(c.arg) : c.arg[i] = NL =>
              /\ MarkerLineAfter(c.arg, i) => c.ret[i] = NL
              /\ PlainContinuation(c.arg, i) => c.ret[i] = SP

RECURSIVE DigitsEnd(_, _)
\* The position after the longest run of digits of s starting at i.
DigitsEnd(s, i) == IF At(s, i) \in Digits THEN DigitsEnd(s, i + 1) ELSE i

\* The line after the break at i begins with one or more digits, a full
\* stop and a space.
NumberedItemAfter(s, i) ==
    LET e == DigitsEnd(s, i + 1) IN
    e > i + 1 /\ At(s, e) = "." /\ At(s, e + 1) = SP

\* C11: unwrap never collapses a line break whose following line begins a
\* numbered list item, digits then ". ", whatever the number of digits:
\* each such break is a line break in the result.
C11_NumberedItemsKept ==
    \A c \in Calls : c.fn = "unwrap" =>
        /\ Len(c.ret) = Len(c.arg)
        /\ \A i \in 1..Len(c.arg) :
              (c.arg[i] = NL /\ NumberedItemAfter(c.arg, i)) => c.ret[i] = NL

\* C12 as stated: unwrap("aa\n aa") returns "aa aa", and wrap("aa\n aa") at
\* the default width returns "aa\n aa".
C12_LeadingSpaceScenario ==
    (first.arg = LeadingSpaceText /\ width = DefaultWidth) =>
        /\ first.fn = "unwrap" => first.ret = <<"a", "a", SP, "a", "a">>
        /\ first.fn = "wrap" => first.ret = LeadingSpaceText

\* C12 amended: unwrap("aa\n aa") and wrap("aa\n aa") at the default width
\* both return "aa\n aa" unchanged.
C12_LeadingSpaceUnchanged ==
    (first.arg = LeadingSpaceText /\ width = DefaultWidth
        /\ first.fn \in {"unwrap", "wrap"}) => first.ret = LeadingSpaceText

\* unwrap was called on "aa\n aa".
C12_Witness ==
    first.arg = LeadingSpaceText /\ width = DefaultWidth /\ first.fn = "unwrap"

\* C13: unwrap never collapses a line break whose next character is
\* whitespace, and the list "2. b b\n   b\n3. b" with its indented
\* continuation line is returned unchanged by unwrap, wrap and rewrap, at
\* width 6, which its first lines exactly fit, and at width 60.
C13_IndentedKept ==
    /\ \A c \in Calls : c.fn = "unwrap" =>
          /\ Len(c.ret) = Len(c.arg)
          /\ \A i \in 1..Len(c.arg) :
                (c.arg[i] = NL /\ At(c.arg, i + 1) \in Whitespace)
                    => c.ret[i] = NL
    /\ (first.arg = IndentedListText /\ width \in {6, 60})
          => /\ first.ret = IndentedListText
             /\ second.fn # "none" => second.ret = IndentedListText

\* rewrap, then unwrap, were called on the indented list at width 6.
C13_Witness ==
    /\ first.arg = IndentedListText /\ width = 6
    /\ first.fn = "rewrap" /\ second.fn = "unwrap"

\* The line breaks of s that exactly one space precedes.
LoneSpaceBreaks(s) ==
    {i \in 1..Len(s) : s[i] = NL /\ At(s, i - 1) = SP /\ At(s, i - 2) # SP}

RECURSIVE LineEnd(_, _)
\* The position of the line break that ends the line starting at i, or
\* Len(s) + 1 when no line break follows.
LineEnd(s, i) == IF i <= Len(s) /\ s[i] # NL THEN LineEnd(s, i + 1) ELSE i

\* The position of the first line break of s, 0 when s has none.
FirstBreak(s) == LET e == LineEnd(s, 1) IN IF e > Len(s) THEN 0 ELSE e

\* The first line of s ends in a word and exactly one space, and does not
\* begin, after optional whitespace, with "<".
LoneSpaceLine(s) ==
    LET b == FirstBreak(s) IN
    /\ b >= 3 /\ s[b - 1] = SP /\ s[b - 2] \notin Whitespace
    /\ At(s, SkipSpace(s, 1)) # "<"

\* p is a prefix of s.
IsPrefix(p, s) == Len(p) <= Len(s) /\ SubSeq(s, 1, Len(p)) = p

\* A single pass was made: unwrap, then wrap on its result.
SinglePass == first.fn = "unwrap" /\ second.fn = "wrap"

PlainChars == {"a", "b", "c"}

\* s is x, a space, a line break and y, where x and y are plain words.
SpacedPair(s) ==
    \E b \in {FirstBreak(s)} :
        /\ b >= 3 /\ b < Len(s) /\ s[b - 1] = SP
        /\ \A i \in 1..Len(s) \ {b - 1, b} : s[i] \in PlainChars

\* Where s is x, a space, a line break and y: s with the space left out
\* (x, line break, y), and s with the line break left out (x, space, y).
WithoutSpace(s) == LET k == FirstBreak(s) IN
    SubSeq(s, 1, k - 2) \o SubSeq(s, k, Len(s))
WithoutBreak(s) == LET k == FirstBreak(s) IN
    SubSeq(s, 1, k - 1) \o SubSeq(s, k + 1, Len(s))

\* C15: for a text x + " \n" + y of two plain words, unwrap returns the
\* text unchanged, wrap returns x + "\n" + y, and rewrap returns a text with
\* no space before a line break: x + " " + y when that fits the width,
\* x + "\n" + y when it does not.
C15_RewrapDropsSpace ==
    (first.fn # "none" /\ SpacedPair(first.arg)) =>
        /\ first.fn = "unwrap" => first.ret = first.arg
        /\ first.fn = "wrap" => first.ret = WithoutSpace(first.arg)
        /\ first.fn = "rewrap" =>
              /\ \A i \in 2..Len(first.ret) :
                    first.ret[i] = NL => first.ret[i - 1] # SP
              /\ first.ret = IF Len(first.arg) - 1 <= width
                             THEN WithoutBreak(first.arg)
                             ELSE WithoutSpace(first.arg)

\* rewrap joined the two words of "aa \naa" at the default width.
C15_Witness ==
    /\ first.arg = TrailingSpaceText /\ first.fn = "rewrap"
    /\ first.ret = <<"a", "a", SP, "a", "a">>

RECURSIVE WordPositions(_, _)
\* The positions from i on of the characters of s that are not whitespace,
\* in order.
WordPositions(s, i) ==
    IF i > Len(s) THEN <<>>
    ELSE IF s[i] \in Whitespace THEN WordPositions(s, i + 1)
    ELSE <<i>> \o WordPositions(s, i + 1)

\* t has the characters of the words of s, in order, and each two
\* characters that are neighbours in a word of s are neighbours in t.
WordsIntact(s, t) ==
    \A a \in {WordPositions(s, 1)} : \A b \in {WordPositions(t, 1)} :
        /\ Len(a) = Len(b)
        /\ \A k \in 1..Len(a) :
              /\ s[a[k]] = t[b[k]]
              /\ (k < Len(a) /\ a[k + 1] = a[k] + 1) => b[k + 1] = b[k] + 1

\* s has a word longer than n characters.
HasWordLongerThan(s, n) ==
    \E i \in 1..(Len(s) - n) : \A j \in i..(i + n) : s[j] \notin Whitespace

\* C16: wrap never breaks inside a word and never hyphenates: for every
\* text and width the result has the characters of the words of the
\* argument, in order and none added or lost, and every word of the
\* argument stands unbroken in it, words longer than the width and words
\* with hyphens included; "a a\n\nb b b b\n\nc-c-c-c" wrapped at width 6
\* keeps "c-c-c-c" whole.
C16_WordsIntact ==
    /\ \A c \in Calls : c.fn = "wrap" => WordsIntact(c.arg, c.ret)
    /\ (first.fn = "wrap" /\ first.arg = HyphenText /\ width = 6)
          => first.ret = HyphenWrapped

\* wrap broke a line before a word longer than the width.
C16_Witness ==
    /\ first.fn = "wrap" /\ HasWordLongerThan(first.arg, width)
    /\ first.ret # first.arg
    /\ HasWordLongerThan(first.ret, width)

RECURSIVE LinesFrom(_, _)
\* The lines of s from position i on: s.split("\n").
LinesFrom(s, i) ==
    LET e == LineEnd(s, i) IN
    IF e > Len(s) THEN <<SubSeq(s, i, Len(s))>>
    ELSE <<SubSeq(s, i, e - 1)>> \o LinesFrom(s, e + 1)

\* A line fits the width or is a single word.
FitsOrWord(line, w) ==
    Len(line) <= w \/ \A j \in 1..Len(line) : line[j] \notin Whitespace

\* Line i of the lines ls begins a paragraph: it is the first line, follows
\* an empty line, or begins with ">" and another character.
ParagraphStart(ls, i) ==
    \/ i = 1
    \/ ls[i - 1] = <<>>
    \/ Len(ls[i]) >= 2 /\ ls[i][1] = ">"

\* s with every line that begins a paragraph filled to the width, its soft
\* break kept, and every other line as it is.
Reflowed(s, w) ==
    LET ls == LinesFrom(s, 1) IN
    JoinLines([i \in 1..Len(ls) |->
                  IF ParagraphStart(ls, i)
                  THEN fill(ls[i], w) \o SoftBreak(ls[i]) ELSE ls[i]])

\* s has no "<".
NoHtml(s) == \A i \in 1..Len(s) : s[i] # "<"

ListItemLine(s) ==
    /\ MarkerWord(s, 1)
    /\ \A i \in 1..Len(s) : s[i] # NL

\* C18 as stated: when wrap re-flows a list item that does not fit the
\* width, each continuation line it produces begins with a space, indented
\* under the item's marker.
C18_ContinuationIndented ==
    (first.fn = "wrap" /\ ListItemLine(first.arg)) =>
        LET ls == LinesFrom(first.ret, 1) IN
        \A i \in 2..Len(ls) : At(ls[i], 1) = SP

\* C18 amended: when wrap re-flows a list item that does not fit the
\* width, each continuation line it produces starts flush left, with a
\* word and no indentation; "a a\n\n* b b\n\nc c" wrapped at width 3 is
\* "a a\n\n* b\nb\n\nc c".
C18_ContinuationFlushLeft ==
    /\ (first.fn = "wrap" /\ ListItemLine(first.arg)) =>
          LET ls == LinesFrom(first.ret, 1) IN
          \A i \in 2..Len(ls) : At(ls[i], 1) \notin Whitespace \union {""}
    /\ (first.fn = "wrap" /\ first.arg = BulletSingleText /\ width = 3)
          => first.ret = BulletSingleWrapped

\* wrap re-flowed the list item of "a a\n\n* b b\n\nc c" at width 3.
C18_Witness ==
    /\ first.fn = "wrap" /\ first.arg = BulletSingleText /\ width = 3
    /\ first.ret # first.arg

\* The position after the contents of a span.
SpanEnd(sp) == sp.start + sp.lead + sp.body

C20_GuardedBreaksKept ==
    \A c \in Calls : c.fn = "unwrap" =>
        /\ Len(c.ret) = Len(c.arg)
        /\ \A i \in 1..Len(c.arg) :
              (c.arg[i] = NL /\ At(c.arg, i - 1) \in {">", SP, NL, ""})
                  => c.ret[i] = NL

\* The characters that keep a line break, or a ">" and a line break, after
\* them from matching: ">", a line break, a space, and the start of the text.
Guards == {">", NL, SP, ""}

\* C20 amended: unwrap never collapses a line break that a space directly
\* precedes, that stands at the start of the text or that directly follows
\* another line break.  A line break directly after ">" is kept when the
\* ">" itself follows ">", a space, a line break or the start of the text,
\* or when the next line begins, after optional whitespace, with "<";
\* otherwise it is a candidate like any other: before a plain word it is
\* collapsed, and "a a a a a\n<b>a a</b>\na a a a a" unwraps to one line.
C20_BreaksAfterAngle ==
    /\ \A c \in Calls : c.fn = "unwrap" =>
          /\ Len(c.ret) = Len(c.arg)
          /\ \A i \in 1..Len(c.arg) : c.arg[i] = NL =>
                /\ At(c.arg, i - 1) \in {SP, NL, ""} => c.ret[i] = NL
                /\ (/\ At(c.arg, i - 1) = ">"
                    /\ \/ At(c.arg, i - 2) \in Guards
                       \/ At(c.arg, SkipSpace(c.arg, i + 1)) = "<")
                      => c.ret[i] = NL
                /\ (/\ At(c.arg, i - 1) = ">"
                    /\ At(c.arg, i - 2) \notin Guards
                    /\ At(c.arg, i + 1) \in PlainChars)
                      => c.ret[i] = SP
    /\ (first.fn = "unwrap" /\ first.arg = InlineHtmlText)
          => first.ret = InlineHtmlUnwrapped

\* unwrap collapsed the break after "</b>" of the inline HTML text.
C20_Witness ==
    /\ first.fn = "unwrap" /\ first.arg = InlineHtmlText
    /\ first.ret # first.arg

\* C27: unwrap's only edits put one space for a line break: for every text
\* the result has the length of the argument and differs from it only
\* where the argument holds a line break and the result a space; a line
\* break next to another line break, or at the start or the end of the
\* text, is never changed; "\n\naa\nbb\n\ncc\n\n" unwraps to
\* "\n\naa bb\n\ncc\n\n".
C27_OnlyBreaksToSpaces ==
    /\ first.fn = "unwrap" =>
          /\ Len(first.ret) = Len(first.arg)
          /\ \A i \in 1..Len(first.arg) : first.ret[i] # first.arg[i] =>
                /\ first.arg[i] = NL /\ first.ret[i] = SP
                /\ At(first.arg, i - 1) \notin {NL, ""}
                /\ At(first.arg, i + 1) \notin {NL, ""}
    /\ (first.fn = "unwrap" /\ first.arg = EnclosingBlanksText)
          => first.ret = EnclosingBlanksUnwrapped

\* unwrap collapsed the break inside the first paragraph of the text
\* enclosed in blank lines.
C27_Witness ==
    /\ first.fn = "unwrap" /\ first.arg = EnclosingBlanksText
    /\ first.ret # first.arg

\* C28: the pass logic of rewrap: for every text s and width W, rewrap
\* returns s itself when one pass wrap(unwrap(s), W) yields s, and
\* otherwise the result of exactly one further pass, never of a third; in
\* both cases the result is pass(pass(s)) with pass(x) = wrap(unwrap(x), W).
C28_OneOrTwoPasses ==
    first.fn = "rewrap" =>
        LET once == OnePass(first.arg, width) IN
        /\ once = first.arg => first.ret = first.arg
        /\ once # first.arg => first.ret = OnePass(once, width)
        /\ first.ret = OnePass(once, width)

\* rewrap ran a second pass that changed the text again, and a third pass
\* would have changed its result once more.
C28_Witness ==
    /\ first.fn = "rewrap"
    /\ OnePass(first.arg, width) # first.arg
    /\ first.ret # OnePass(first.arg, width)
    /\ OnePass(first.ret, width) # first.ret

RECURSIVE WordsFrom(_, _)
\* The words of s from position i on, as str.split() gives them: the
\* longest runs of characters that are not whitespace.
WordsFrom(s, i) ==
    IF i > Len(s) THEN <<>>
    ELSE IF s[i] \in Whitespace THEN WordsFrom(s, RunEnd(s, i, TRUE))
    ELSE LET j == RunEnd(s, i, FALSE) IN
         <<SubSeq(s, i, j - 1)>> \o WordsFrom(s, j)

\* C29: words are conserved: for every text s and width W > 0, the
\* whitespace-delimited words of unwrap(s), of wrap(s, W) and of
\* rewrap(s, W) are those of s, in order: no word is merged, split,
\* dropped, moved or added, also around an HTML lead-in "<" and around
\* quote and list markers.
C29_WordsConserved ==
    first.fn # "none" => WordsFrom(first.ret, 1) = WordsFrom(first.arg, 1)

RECURSIVE LineStarts(_, _)
\* The positions at which the lines of s from position i on start.
LineStarts(s, i) ==
    LET e == LineEnd(s, i) IN
    IF e > Len(s) THEN <<i>> ELSE <<i>> \o LineStarts(s, e + 1)

\* The characters of s that are not whitespace, in order.
Letters(s) == LET p == WordPositions(s, 1) IN [k \in 1..Len(p) |-> s[p[k]]]

RECURSIVE SkipBlanks(_, _)
\* The position after the longest run of spaces starting at i.
SkipBlanks(s, i) == IF At(s, i) = SP THEN SkipBlanks(s, i + 1) ELSE i

\* The line of s that starts at a holds contents of a span.
SpanContents(s, a) ==
    LET spans == SpansFrom(s, 1)
        b == LineEnd(s, a)
    IN \E k \in 1..Len(spans) :
          spans[k].start + spans[k].lead < b /\ SpanEnd(spans[k]) > a

\* The line of s that starts at a directly follows a line break, does not
\* begin (after spaces) with "<" and does not begin with ">".
PlainLineAfterBreak(s, a) ==
    /\ a >= 2
    /\ At(s, SkipBlanks(s, a)) # "<"
    /\ At(s, a) # ">"

RECURSIVE TakeLetters(_, _, _)
\* The index after the fewest lines of ols from j on, at least one, that
\* together hold n characters that are not whitespace.
TakeLetters(ols, j, n) ==
    IF j > Len(ols) THEN j
    ELSE LET m == Len(Letters(ols[j])) IN
         IF m >= n THEN j + 1 ELSE TakeLetters(ols, j + 1, n - m)

RECURSIVE LinesRefine(_, _, _, _, _)
\* The lines ols are the lines ls from i on, in order, each line i with
\* verbatim[i] as it is and each other line as one or more lines holding
\* its characters that are not whitespace.
LinesRefine(ls, verbatim, i, ols, j) ==
    IF i > Len(ls) THEN j > Len(ols)
    ELSE IF j > Len(ols) THEN FALSE
    ELSE IF verbatim[i]
         THEN ols[j] = ls[i] /\ LinesRefine(ls, verbatim, i + 1, ols, j + 1)
         ELSE LET e == TakeLetters(ols, j, Len(Letters(ls[i]))) IN
              /\ Letters(JoinLines(SubSeq(ols, j, e - 1))) = Letters(ls[i])
              /\ LinesRefine(ls, verbatim, i + 1, ols, e)

----------------------------------------------------------------------------
(* Arguments of any type and widths of any sign: one call of an interface  *)
(* function of yamlwrap, or of wrap_paragraphs or rewrap_paragraphs of     *)
(* yamldoc, which take the width and set it on the shared _WRAPPER.        *)

MaxArgLen == 3
MaxNegWidth == 2

\* Python objects: a str with its text, and values of other types.
Str(s) == [type |-> "str", value |-> s]
None == [type |-> "NoneType", value |-> <<>>]
NonStrings ==
    {None} \union {[type |-> t, value |-> <<>>] : t \in {"int", "bytes", "list"}}
Objects == {Str(s) : s \in Texts(MaxArgLen)} \union NonStrings

\* What a call that raised returns: nothing.
NoValue == [type |-> "none", value |-> <<>>]

\* How a call ends: the exception it raised or "none", the object it
\* returned, and the levels of the records it logged.
Returned(object) == [raised |-> "none", ret |-> object, logged |-> <<>>]
Raised(exception, logged) ==
    [raised |-> exception, ret |-> NoValue, logged |-> logged]

\* unwrap whose except clause logs and does not re-raise: the call
\* returns None.
UnwrapOutcomeSwallowed(object) ==
    IF object.type = "str" THEN Returned(Str(unwrap(object.value)))
    ELSE [raised |-> "none", ret |-> None, logged |-> <<"CRITICAL">>]

\* unwrap: _WRAP_BREAK.sub raises TypeError for an argument that is not a
\* str; the except clause logs at critical level and re-raises.
UnwrapOutcome(object) ==
    IF object.type = "str" THEN Returned(Str(unwrap(object.value)))
    ELSE Raised("TypeError", <<"CRITICAL">>)

\* wrap with a wrapper of width w: _PARAGRAPH.sub raises TypeError for an
\* argument that is not a str; wrapper.fill, called for every match, raises
\* ValueError when the width is not positive.
WrapOutcome(object, w) ==
    IF object.type # "str" THEN Raised("TypeError", <<>>)
    ELSE IF w <= 0 /\ SpansFrom(object.value, 1) # <<>>
         THEN Raised("ValueError", <<>>)
         ELSE Returned(Str(wrap(object.value, w)))

\* _rewrap: wrap(unwrap(string), **kwargs)
OnePassOutcome(object, w) ==
    LET u == UnwrapOutcome(object) IN
    IF u.raised # "none" THEN u ELSE WrapOutcome(u.ret, w)

\* rewrap
RewrapOutcome(object, w) ==
    LET new_string == OnePassOutcome(object, w) IN
    IF new_string.raised # "none" THEN new_string
    ELSE IF object = new_string.ret THEN Returned(object)
    ELSE OnePassOutcome(new_string.ret, w)

\* _WRAPPER.width = width or 70, in _wrap of yamldoc.
EffectiveWidth(w) == IF w = 0 THEN DefaultWidth ELSE w

\* The width of _WRAPPER after wrap_paragraphs(object, width=w): _wrap sets
\* it for every match.
WidthAfter(object, w) ==
    IF object.type = "str" /\ SpansFrom(object.value, 1) # <<>>
    THEN EffectiveWidth(w) ELSE wrapperWidth

InitArgs ==
    /\ string \in Objects
    /\ width \in (0 - MaxNegWidth)..MaxWidth
    /\ first = NoCall
    /\ second = NoCall
    /\ NoErrors /\ NoThreads /\ NoTree /\ NoCli

\* One call of fn on the object held, ending as outcome says.
CallArg(fn, outcome) ==
    /\ first = NoCall
    /\ first' = [fn |-> fn, arg |-> string, ret |-> outcome.ret]
    /\ raised' = outcome.raised
    /\ log' = log \o outcome.logged
    /\ UNCHANGED <<string, width, second, threads, treeVars, cliVars>>

UnwrapArg == CallArg("unwrap", UnwrapOutcome(string)) /\ UNCHANGED wrapperWidth

WrapArg == CallArg("wrap", WrapOutcome(string, width)) /\ UNCHANGED wrapperWidth

RewrapArg ==
    CallArg("rewrap", RewrapOutcome(string, width)) /\ UNCHANGED wrapperWidth

\* wrap_paragraphs(string, width=width) of yamldoc.
WrapParagraphs ==
    /\ CallArg("wrap_paragraphs", WrapOutcome(string, EffectiveWidth(width)))
    /\ wrapperWidth' = WidthAfter(string, width)

\* rewrap_paragraphs(string, width=width) of yamldoc.
RewrapParagraphs ==
    /\ CallArg("rewrap_paragraphs",
               RewrapOutcome(string, EffectiveWidth(width)))
    /\ wrapperWidth' =
          LET u == UnwrapOutcome(string) IN
          IF u.raised # "none" THEN wrapperWidth ELSE WidthAfter(u.ret, width)

NextArgs ==
    UnwrapArg \/ WrapArg \/ RewrapArg \/ WrapParagraphs \/ RewrapParagraphs

SpecArgs == InitArgs /\ [][NextArgs]_vars

\* C21: unwrap is total on strings and fails loudly otherwise: for every
\* string it returns a string and raises nothing; for an argument that is
\* not a string, such as None, it logs at critical level and re-raises the
\* TypeError, returns no value and does not coerce the argument.
C21_UnwrapTotalOnStrings ==
    first.fn = "unwrap" =>
        IF first.arg.type = "str"
        THEN raised = "none" /\ first.ret.type = "str" /\ log = <<>>
        ELSE raised = "TypeError" /\ first.ret = NoValue
             /\ log = <<"CRITICAL">>

\* unwrap was called with None.
C21_Witness ==
    first.fn = "unwrap" /\ first.arg = None /\ raised = "TypeError"

\* C22: wrap and rewrap are total in the width: for every text and every
\* width that is zero or negative the call raises no error and returns
\* what wrapping at the default width 70 returns.
C22_TotalInWidth ==
    (/\ first.fn \in {"wrap", "rewrap", "wrap_paragraphs", "rewrap_paragraphs"}
     /\ first.arg.type = "str" /\ width <= 0) =>
        /\ raised = "none"
        /\ first.fn \in {"wrap", "wrap_paragraphs"}
              => first.ret = Str(wrap(first.arg.value, DefaultWidth))
        /\ first.fn \in {"rewrap", "rewrap_paragraphs"}
              => first.ret = Str(rewrap(first.arg.value, DefaultWidth))

----------------------------------------------------------------------------
(* Two threads each call wrap_paragraphs of yamldoc on a string of their   *)
(* own with a width of their own.  re.sub calls _wrap for every match;     *)
(* _wrap sets _WRAPPER.width and then calls _WRAPPER.fill, which reads it, *)
(* and a thread switch can fall between the two.  fill is taken as one     *)
(* step that reads the width once.                                         *)

MaxThreadLen == 3

Threads == {1, 2}

\* The texts the threads wrap: words of "a" and spaces, and a text of two
\* paragraphs.
TwoParagraphs == <<"a", SP, "a", NL, NL, "a", SP, "a">>
ThreadTexts ==
    UNION {[1..k -> {"a", SP}] : k \in 0..MaxThreadLen} \union {TwoParagraphs}

\* The text between the match before match k, or the start of s, and
\* match k.
Unmatched(s, spans, k) ==
    LET from == IF k = 1 THEN 1 ELSE SpanEnd(spans[k - 1])
        to == IF k > Len(spans) THEN Len(s) ELSE spans[k].start - 1
    IN SubSeq(s, from, to)

\* A call of wrap_paragraphs(s, width=w) that has found its first match, or
\* has returned s for want of one.
Started(s, w) ==
    [string |-> s, width |-> w, k |-> 1, out |-> <<>>,
     pc |-> IF SpansFrom(s, 1) = <<>> THEN "done" ELSE "set",
     ret |-> IF SpansFrom(s, 1) = <<>> THEN s ELSE <<>>]

InitThreads ==
    /\ \E s1, s2 \in ThreadTexts : \E w1, w2 \in 1..MaxWidth :
          /\ w1 # w2
          /\ threads = <<Started(s1, w1), Started(s2, w2)>>
    /\ wrapperWidth = DefaultWidth
    /\ string = <<>> /\ width = DefaultWidth
    /\ first = NoCall /\ second = NoCall
    /\ NoErrors /\ NoTree /\ NoCli

\* _wrap, first statement: _WRAPPER.width = width or 70
SetWidth(t) ==
    /\ threads[t].pc = "set"
    /\ wrapperWidth' = EffectiveWidth(threads[t].width)
    /\ threads' = [threads EXCEPT ![t].pc = "fill"]
    /\ UNCHANGED <<callVars, errorVars, treeVars, cliVars>>

\* _wrap, second statement: the lead-in, _WRAPPER.fill of the contents at
\* the width _WRAPPER has now, and the soft break; re.sub then looks for the
\* next match and returns when there is none.
Fill(t) ==
    LET th == threads[t]
        s == th.string
        spans == SpansFrom(s, 1)
        sp == spans[th.k]
        lead == SubSeq(s, sp.start, sp.start + sp.lead - 1)
        body == SubSeq(s, sp.start + sp.lead, SpanEnd(sp) - 1)
        out == th.out \o Unmatched(s, spans, th.k) \o lead
                   \o fill(body, wrapperWidth) \o SoftBreak(body)
        last == th.k = Len(spans)
    IN /\ th.pc = "fill"
       /\ threads' = [threads EXCEPT ![t] =
             [th EXCEPT !.k = th.k + 1,
                        !.out = out,
                        !.pc = IF last THEN "done" ELSE "set",
                        !.ret = IF last
                                THEN out \o Unmatched(s, spans, th.k + 1)
                                ELSE <<>>]]
       /\ UNCHANGED <<wrapperWidth, callVars, errorVars, treeVars, cliVars>>

NextThreads == \E t \in Threads : SetWidth(t) \/ Fill(t)

SpecThreads == InitThreads /\ [][NextThreads]_vars

\* C23: independent calls need no coordination: when two calls of
\* wrap_paragraphs with different widths run concurrently on separate
\* strings, each returns, under every interleaving, what it returns when
\* run alone.
C23_NoInterference ==
    \A t \in Threads : threads[t].pc = "done" =>
        threads[t].ret = wrap(threads[t].string, threads[t].width)

----------------------------------------------------------------------------
(* transform: the deserialized data is walked by _descend, which applies   *)
(* the string functions chosen by the keyword arguments.  The data are     *)
(* held as loaded; serialization is left to pyaml.                         *)

MaxDepth == 3

\* Python objects that yaml.safe_load returns: str, int, dict (its items
\* in insertion order) and list.
AnInt == [type |-> "int", value |-> <<>>]
Dict(items) == [type |-> "dict", value |-> items]
List(items) == [type |-> "list", value |-> items]

\* 'aa\nbb', which unwrap changes and wrap does not.
TrivialText == <<"a", "a", NL, "b", "b">>

Leaves == {Str(TrailingSpaceText), Str(TrivialText), AnInt}

RECURSIVE Trees(_)
\* Data nested at most d deep.
Trees(d) ==
    IF d = 0 THEN Leaves
    ELSE LET T == Trees(d - 1) IN
         Leaves
         \union {Dict(<<<<"k", x>>>>) : x \in T}
         \union {List(<<x>>) : x \in T}
         \union {Dict(<<<<"k", x>>, <<"l", y>>>>) : x \in T, y \in Leaves}
         \union {List(<<x, y>>) : x \in T, y \in Leaves}

\* The functions of the module by name, as transform and _descend call
\* them: without keyword arguments, so with the default wrapper.  The name
\* _rewrap is bound last by the def of line 314, one pass.
ApplyFn(f, s) ==
    CASE f = "_unwrap" -> unwrap(s)
      [] f = "_wrap" -> wrap(s, DefaultWidth)
      [] f = "_rewrap" -> OnePass(s, DefaultWidth)
      [] f = "rewrap" -> rewrap(s, DefaultWidth)

RECURSIVE ApplyAll(_, _)
\* for f in string_fns: object_[key] = f(object_[key])
ApplyAll(fns, s) ==
    IF fns = <<>> THEN s ELSE ApplyAll(Tail(fns), ApplyFn(Head(fns), s))

RECURSIVE DescendEverywhere(_, _)
\* _descend that applies the string functions to the strings of lists too.
DescendEverywhere(object, fns) ==
    IF object.type = "str" THEN Str(ApplyAll(fns, object.value))
    ELSE IF object.type = "dict"
    THEN Dict([i \in 1..Len(object.value) |->
                 <<object.value[i][1],
                   DescendEverywhere(object.value[i][2], fns)>>])
    ELSE IF object.type = "list"
    THEN List([i \in 1..Len(object.value) |->
                 DescendEverywhere(object.value[i], fns)])
    ELSE object

RECURSIVE Descend(_, _)
\* _descend(object_, map_fn, string_fns) with the default map_fn: the value
\* of object_ afterwards.  In a mapping a value that is a str is replaced
\* by what the string functions make of it and every value is descended
\* into; in a list every item is descended into; anything else, a str
\* included, is left as it is.
Descend(object, fns) ==
    IF object.type = "dict"
    THEN Dict([i \in 1..Len(object.value) |->
                 LET key == object.value[i][1]
                     value == object.value[i][2]
                 IN IF value.type = "str"
                    THEN <<key, Str(ApplyAll(fns, value.value))>>
                    ELSE <<key, Descend(value, fns)>>])
    ELSE IF object.type = "list"
    THEN List([i \in 1..Len(object.value) |-> Descend(object.value[i], fns)])
    ELSE object

\* string_fns of transform, no lint_fn given.
StringFns(twopass, unwrap_, wrap_) ==
    IF unwrap_ /\ wrap_ /\ twopass THEN <<"_rewrap">>
    ELSE (IF unwrap_ THEN <<"_unwrap">> ELSE <<>>)
            \o (IF wrap_ THEN <<"_wrap">> ELSE <<>>)

InitTree ==
    /\ data \in Trees(MaxDepth)
    /\ cooked = NoResult
    /\ string = <<>> /\ width = DefaultWidth
    /\ first = NoCall /\ second = NoCall
    /\ NoErrors /\ NoThreads /\ NoCli

\* transform(raw, twopass, unwrap, wrap) with raw the serialized data: the
\* data as walked, and None for the result when nothing changed.
Transform ==
    /\ cooked = NoResult
    /\ \E twopass, unwrap_, wrap_ \in BOOLEAN :
          LET walked == Descend(data, StringFns(twopass, unwrap_, wrap_)) IN
          /\ data' = walked
          /\ cooked' = [made |-> TRUE, raw |-> data, twopass |-> twopass,
                        unwrap |-> unwrap_, wrap |-> wrap_,
                        ret |-> IF walked = data THEN None ELSE walked]
    /\ UNCHANGED <<callVars, errorVars, threadVars, cliVars>>

NextTree == Transform

SpecTree == InitTree /\ [][NextTree]_vars

\* C24: the tree walk applies the configured string functions to every
\* string-valued leaf of the nested data: strings that are values of
\* mappings, strings that are elements of sequences, and strings at any
\* depth are all replaced by their transformed value.
C24_EveryStringLeaf ==
    (cooked.made /\ cooked.raw.type \in {"dict", "list"}) =>
        data = DescendEverywhere(cooked.raw,
                   StringFns(cooked.twopass, cooked.unwrap, cooked.wrap))

\* C25: transform with unwrap and wrap set and twopass at its default
\* leaves every string value it transforms equal to rewrap of that value,
\* the one-or-two-pass function, not to a single pass of unwrap and wrap.
C25_RewrapModeRewraps ==
    (cooked.made /\ cooked.unwrap /\ cooked.wrap /\ cooked.twopass) =>
        data = Descend(cooked.raw, <<"rewrap">>)

----------------------------------------------------------------------------
(* The command line: yamlwrap diff and yamlwrap write on a source file     *)
(* that holds one key with a text as its value, serialized as pyaml dumps  *)
(* it.                                                                     *)

\* 'aa bb', 'aa' and 'aa\nbb\n\ncc'
TrivialUnwrapped == <<"a", "a", SP, "b", "b">>
OneWord == <<"a", "a">>
ShortSimple == <<"a", "a", NL, "b", "b", NL, NL, "c", "c">>

CliTexts == {TrivialText, TrivialUnwrapped, OneWord, ShortSimple}

\* The data of a file: a mapping of one key to a text.
Document(text) == Dict(<<<<"k", Str(text)>>>>)
Documents == {Document(text) : text \in CliTexts}

\* str.splitlines(): the lines of s, none for a line break that ends s.
SplitLines(s) ==
    IF s = <<>> THEN <<>>
    ELSE LET ls == LinesFrom(s, 1) IN
         IF s[Len(s)] = NL THEN SubSeq(ls, 1, Len(ls) - 1) ELSE ls

\* The lines, each ended by a line break, as one text.
Contents(lines) == Concat([i \in 1..Len(lines) |-> lines[i] \o <<NL>>])

\* dump(data, width=160, string_val_style=...): a text of several lines, or
\* any text when the style "|" is asked for, goes as a literal block with
\* its lines indented, any other text on the line of its key.
Dump(document, literal) ==
    LET text == document.value[1][2].value
        ls == LinesFrom(text, 1)
        block == [i \in 1..Len(ls) |->
                     IF ls[i] = <<>> THEN <<>> ELSE <<SP, SP>> \o ls[i]]
    IN IF literal \/ Len(ls) > 1
       THEN Str(Contents(<<<<"k", ":", SP, "|", "-">>>> \o block))
       ELSE Str(Contents(<<<<"k", ":", SP>> \o text>>))

\* The contents a file can have.
FileContents == {Dump(d, literal) : d \in Documents, literal \in BOOLEAN}

\* load(raw): the data that dump writes as raw.
Load(raw) ==
    CHOOSE d \in Documents : \E literal \in BOOLEAN : Dump(d, literal) = raw

\* transform(raw, unwrap=..., wrap=...) with twopass at its default: None
\* when the serialized result is the argument.
TransformRaw(raw, unwrap_, wrap_) ==
    LET walked == Descend(Load(raw), StringFns(TRUE, unwrap_, wrap_))
        Result(cooked_) == IF raw = cooked_ THEN None ELSE cooked_
    IN Result(Dump(walked, unwrap_ /\ ~ wrap_))

\* before_and_after(args): the old and the new contents.
BeforeAndAfter ==
    LET before == files.source
        Pair(after) == <<before, IF after = None THEN before ELSE after>>
    IN Pair(TransformRaw(before, args.unwrap \/ args.rewrap,
                         args.wrap \/ args.rewrap))

RECURSIVE CommonPrefix(_, _, _)
\* How many lines beyond the first n begin a and b alike.
CommonPrefix(a, b, n) ==
    IF n < Len(a) /\ n < Len(b) /\ a[n + 1] = b[n + 1]
    THEN CommonPrefix(a, b, n + 1) ELSE n

RECURSIVE CommonSuffix(_, _, _, _)
\* How many lines after the first p end a and b alike.
CommonSuffix(a, b, p, n) ==
    IF n < Len(a) - p /\ n < Len(b) - p /\ a[Len(a) - n] = b[Len(b) - n]
    THEN CommonSuffix(a, b, p, n + 1) ELSE n

Tagged(tag, lines) == [i \in 1..Len(lines) |-> [tag |-> tag, text |-> lines[i]]]

\* difflib.unified_diff(old, new, fromfile, tofile, lineterm=""): nothing
\* for equal sequences; else the two header lines and one hunk, for files
\* this short, of the lines the two begin and end with as context around
\* the lines removed and the lines added.
UnifiedDiff(old, new, fromfile, tofile) ==
    IF old = new THEN <<>>
    ELSE LET p == CommonPrefix(old, new, 0)
             q == CommonSuffix(old, new, p, 0)
         IN <<[tag |-> "---", text |-> <<fromfile>>],
              [tag |-> "+++", text |-> <<tofile>>],
              [tag |-> "@@", text |-> <<>>]>>
            \o Tagged(" ", SubSeq(old, 1, p))
            \o Tagged("-", SubSeq(old, p + 1, Len(old) - q))
            \o Tagged("+", SubSeq(new, p + 1, Len(new) - q))
            \o Tagged(" ", SubSeq(old, Len(old) - q + 1, Len(old)))

\* The arguments define_cli accepts for the modes diff and write: one of
\* --wrap, --unwrap and --rewrap; for diff a reference or none; for write
\* --in-place or a target.
Modes ==
    {[wrap |-> f = "wrap", unwrap |-> f = "unwrap", rewrap |-> f = "rewrap"] :
        f \in {"wrap", "unwrap", "rewrap"}}

InitCli ==
    /\ \E m \in Modes : \E src \in FileContents :
          \/ \E ref \in FileContents \union {None} :
                /\ args = [function |-> "diff", wrap |-> m.wrap,
                           unwrap |-> m.unwrap, rewrap |-> m.rewrap,
                           reference |-> ref # None, in_place |-> FALSE]
                /\ files = [source |-> src, reference |-> ref, target |-> None]
          \/ \E in_place \in BOOLEAN :
                /\ args = [function |-> "write", wrap |-> m.wrap,
                           unwrap |-> m.unwrap, rewrap |-> m.rewrap,
                           reference |-> FALSE, in_place |-> in_place]
                /\ files = [source |-> src, reference |-> None, target |-> None]
    /\ process = NotRun
    /\ string = <<>> /\ width = DefaultWidth
    /\ first = NoCall /\ second = NoCall
    /\ NoErrors /\ NoThreads /\ NoTree

\* diff_(args)
Diff ==
    LET Printed(old_source_contents, new_source_contents) ==
            LET target_contents == IF args.reference THEN files.reference
                                   ELSE new_source_contents
                old == SplitLines(old_source_contents.value)
                new == SplitLines(target_contents.value)
                tofile == IF args.reference THEN "reference"
                          ELSE "source [transformed]"
            IN UnifiedDiff(old, new, "source", tofile)
        Unpacked(contents) == Printed(contents[1], contents[2])
    IN /\ args.function = "diff" /\ ~ process.exited
       /\ process' = [stdout |-> Unpacked(BeforeAndAfter), exited |-> TRUE]
       /\ UNCHANGED <<files, args, callVars, errorVars, threadVars, treeVars>>

\* write(args)
Write ==
    LET Written(new_target_contents) ==
            IF args.in_place
            THEN [files EXCEPT !.source = new_target_contents]
            ELSE [files EXCEPT !.target = new_target_contents]
    IN
    /\ args.function = "write" /\ ~ process.exited
    /\ files' = Written(BeforeAndAfter[2])
    /\ process' = [stdout |-> <<>>, exited |-> TRUE]
    /\ UNCHANGED <<args, callVars, errorVars, threadVars, treeVars>>

NextCli == Diff \/ Write

SpecCli == InitCli /\ [][NextCli]_vars

\* The lines of a diff after its two header lines.
Hunks(diff) == SelectSeq(diff, LAMBDA l : l.tag \notin {"---", "+++"})

\* C26: in diff mode the diff printed shows the result of the
\* transformation: without --reference it compares the contents of the
\* source before and after the transformation, and with --reference it
\* compares the transformed contents of the source with the contents of
\* the reference file.
C26_DiffShowsTransformation ==
    (args.function = "diff" /\ process.exited) =>
        LET before == SplitLines(BeforeAndAfter[1].value)
            after == SplitLines(BeforeAndAfter[2].value)
        IN IF args.reference
           THEN Hunks(process.stdout) =
                   Hunks(UnifiedDiff(after, SplitLines(files.reference.value),
                                     "source", "reference"))
           ELSE Hunks(process.stdout) =
                   Hunks(UnifiedDiff(before, after, "source",
                                     "source [transformed]"))

====
